---- MODULE Spec2Model ----
(***************************************************************************)
(* Seat logic of survey-seat (src/server.js): assignSeats groups the       *)
(* respondents into pairs plus at most one triad, buildTables packs the    *)
(* blocks into four-seat tables and derives the id -> table index.         *)
(*                                                                         *)
(* A respondent is the record [id, q1, q2, q3, q4].  The columns name, q5  *)
(* and q5_short are copied into a seat for display and are never read by   *)
(* the seat logic, so they are not carried.  The seat positions 左上, 右上, *)
(* 左下, 右下 are written "top-left", "top-right", "bottom-left",           *)
(* "bottom-right".                                                         *)
(*                                                                         *)
(* The handlers that call the seat logic (POST /api/responses,             *)
(* POST /api/publish, POST /api/reset, GET /api/myseat,                    *)
(* GET /api/assignments) are modelled with one step per awaited query:     *)
(* the query takes effect on the stored data and the code up to the next   *)
(* await runs with it.  The synchronous seat logic of a handler runs to    *)
(* its end before another handler takes a step.                            *)
(***************************************************************************)
EXTENDS Integers, Sequences, FiniteSets, TLC

\* Largest number of respondents handed to buildTables.
MaxN == 4

\* Largest number of respondents in the wide inputs, which fix q2 and q4.
MaxWide == 8

\* Largest number of ids POST /api/responses generates.
MaxPosts == 3

\* Largest number of stored responses GET /api/assignments starts from.
MaxResp == 2

\* bestScore starts at Infinity in the similarity scan; any value above the
\* largest distance (2) behaves the same.
Infinity == 99

\* s.id of an empty seat is undefined.
NoId == 0

\* best = null in the similarity scan (an index into noQ3, 0 = none).
NoBest == 0

VARIABLES rows, pc, i, used, pairs, remaining, blocks, tables, idToTable

\* The stored data and the requests in flight:
\*   published  the value of state.published of the event
\*   responses  the rows of table responses, in created_at order
\*   overrides  the rows of table manual_seats
\*   nextId     counts the ids generated by cryptoRandomId
\*   myseat, post, reset   the GET /api/myseat, POST /api/responses and
\*              POST /api/reset request in flight, with its last reply
VARIABLES published, responses, overrides, nextId, myseat, post, reset

web == <<published, responses, overrides, nextId, myseat, post, reset>>

vars == <<rows, pc, i, used, pairs, remaining, blocks, tables, idToTable, web>>

MyseatIdle == [pc |-> "idle", id |-> NoId, reply |-> "none", tableNo |-> 0]

PostIdle == [pc |-> "idle", reply |-> "none"]

\* No stored data and no request in flight.
WebIdle ==
  /\ published = FALSE
  /\ responses = <<>>
  /\ overrides = <<>>
  /\ nextId = 1
  /\ myseat = MyseatIdle
  /\ post = PostIdle
  /\ reset = "idle"

----------------------------------------------------------------------------
\* Inputs

Attrs == [q1 : BOOLEAN, q2 : BOOLEAN, q3 : BOOLEAN, q4 : BOOLEAN]

\* Ids are opaque unique strings (cryptoRandomId); the k-th row gets a
\* distinct value whose order is unrelated to the input order.
IdAt(k) == (k * 7) % 11

Respondent(k, f) ==
  [id |-> IdAt(k), q1 |-> f.q1, q2 |-> f.q2, q3 |-> f.q3, q4 |-> f.q4]

----------------------------------------------------------------------------
\* Helpers of the seat logic

hammingQ1Q2(a, b) ==
  (IF a.q1 # b.q1 THEN 1 ELSE 0) + (IF a.q2 # b.q2 THEN 1 ELSE 0)

\* orderLeftRight without the swap of a listener placed first.
orderNeverSwap(a, b) == <<a, b>>

\* orderLeftRight moving every listener found first to the right, without
\* looking at the second respondent.
orderListenerRight(a, b) ==
  IF a.q4 = TRUE THEN <<b, a>> ELSE <<a, b>>

orderLeftRight(a, b) ==
  IF a.q4 = FALSE /\ b.q4 = TRUE THEN <<a, b>>
  ELSE IF a.q4 = TRUE /\ b.q4 = FALSE THEN <<b, a>>
  ELSE <<a, b>>

\* The similarity pass taking every respondent.
IsAnyQ3(r) == TRUE

IsNoQ3(r) == r.q3 = FALSE

noQ3 == SelectSeq(rows, IsNoQ3)

\* The similarity scan with the comparison of the difference pass,
\* d > bestScore, which never holds against Infinity.
RECURSIVE ScanMinGreater(_, _, _, _, _)
ScanMinGreater(list, a, j, best, bestScore) ==
  IF j > Len(list) THEN best
  ELSE IF list[j].id \in used THEN ScanMinGreater(list, a, j + 1, best, bestScore)
  ELSE IF hammingQ1Q2(a, list[j]) > bestScore
       THEN ScanMinGreater(list, a, j + 1, j, hammingQ1Q2(a, list[j]))
       ELSE ScanMinGreater(list, a, j + 1, best, bestScore)

\* The similarity scan with d <= bestScore: the last of the nearest wins.
RECURSIVE ScanMinLast(_, _, _, _, _)
ScanMinLast(list, a, j, best, bestScore) ==
  IF j > Len(list) THEN best
  ELSE IF list[j].id \in used THEN ScanMinLast(list, a, j + 1, best, bestScore)
  ELSE IF hammingQ1Q2(a, list[j]) <= bestScore
       THEN ScanMinLast(list, a, j + 1, j, hammingQ1Q2(a, list[j]))
       ELSE ScanMinLast(list, a, j + 1, best, bestScore)

\* The inner loop of the similarity pass: for (j = i + 1; j < noQ3.length; j++)
RECURSIVE ScanMin(_, _, _, _, _)
ScanMin(list, a, j, best, bestScore) ==
  IF j > Len(list) THEN best
  ELSE IF list[j].id \in used THEN ScanMin(list, a, j + 1, best, bestScore)
  ELSE IF hammingQ1Q2(a, list[j]) < bestScore
       THEN ScanMin(list, a, j + 1, j, hammingQ1Q2(a, list[j]))
       ELSE ScanMin(list, a, j + 1, best, bestScore)

\* The difference scan with d >= bestScore: the last of the farthest wins.
RECURSIVE ScanMaxLast(_, _, _, _, _)
ScanMaxLast(rest, a, k, bestIdx, bestScore) ==
  IF k > Len(rest) THEN bestIdx
  ELSE IF hammingQ1Q2(a, rest[k]) >= bestScore
       THEN ScanMaxLast(rest, a, k + 1, k, hammingQ1Q2(a, rest[k]))
       ELSE ScanMaxLast(rest, a, k + 1, bestIdx, bestScore)

\* The inner loop of the difference pass over remaining (after the shift).
RECURSIVE ScanMax(_, _, _, _, _)
ScanMax(rest, a, k, bestIdx, bestScore) ==
  IF k > Len(rest) THEN bestIdx
  ELSE IF hammingQ1Q2(a, rest[k]) > bestScore
       THEN ScanMax(rest, a, k + 1, k, hammingQ1Q2(a, rest[k]))
       ELSE ScanMax(rest, a, k + 1, bestIdx, bestScore)

\* The partner is read but not removed from remaining.
SpliceKeep(s, idx) == s

\* remaining.splice(bestIdx, 1): the list without its element at idx.
Splice(s, idx) == SubSeq(s, 1, idx - 1) \o SubSeq(s, idx + 1, Len(s))

\* remaining taken as all of rows.
UnusedAll(r) == TRUE

\* rows.filter((r) => !used.has(r.id))
Unused(r) == r.id \notin used

\* The odd remainder is dropped.
DropLeftover(ps, rem) == ps

\* The odd remainder is pushed onto every pair.
AttachToEvery(ps, rem) ==
  IF Len(rem) = 1 /\ Len(ps) > 0
  THEN [k \in 1..Len(ps) |-> Append(ps[k], rem[1])]
  ELSE ps

\* The odd remainder is pushed onto the last pair.
AttachToLast(ps, rem) ==
  IF Len(rem) = 1 /\ Len(ps) > 0
  THEN [ps EXCEPT ![Len(ps)] = Append(@, rem[1])]
  ELSE ps

\* The odd remainder is put in front of the first pair (unshift).
AttachFront(ps, rem) ==
  IF Len(rem) = 1 /\ Len(ps) > 0
  THEN [ps EXCEPT ![1] = <<rem[1]>> \o @]
  ELSE ps

\* if (remaining.length === 1 && pairs.length > 0) pairs[0].push(remaining[0])
AttachLeftover(ps, rem) ==
  IF Len(rem) = 1 /\ Len(ps) > 0
  THEN [ps EXCEPT ![1] = Append(@, rem[1])]
  ELSE ps

blockType(p) == IF Len(p) = 3 THEN "triad" ELSE "pair"

ToBlocks(ps) ==
  [k \in 1..Len(ps) |-> [type |-> blockType(ps[k]), members |-> ps[k]]]

----------------------------------------------------------------------------
\* assignSeats, one action per loop iteration

Init ==
  /\ \E n \in 0..MaxN : \E f \in [1..n -> Attrs] :
       rows = [k \in 1..n |-> Respondent(k, f[k])]
  /\ pc = "sim"
  /\ i = 1
  /\ used = {}
  /\ pairs = <<>>
  /\ remaining = <<>>
  /\ blocks = <<>>
  /\ tables = <<>>
  /\ idToTable = <<>>
  /\ WebIdle

\* One iteration of the outer loop of the similarity pass.
SimIter ==
  /\ pc = "sim"
  /\ i <= Len(noQ3)
  /\ LET a == noQ3[i]
         best == ScanMin(noQ3, a, i + 1, NoBest, Infinity)
     IN IF a.id \in used \/ best = NoBest
        THEN UNCHANGED <<used, pairs>>
        ELSE /\ used' = used \cup {a.id, noQ3[best].id}
             /\ pairs' = Append(pairs, orderLeftRight(a, noQ3[best]))
  /\ i' = i + 1
  /\ UNCHANGED <<rows, pc, remaining, blocks, tables, idToTable>>
  /\ UNCHANGED web

\* The similarity loop ends; remaining is filtered from rows.
SimDone ==
  /\ pc = "sim"
  /\ i > Len(noQ3)
  /\ remaining' = SelectSeq(rows, Unused)
  /\ pc' = "diff"
  /\ UNCHANGED <<rows, i, used, pairs, blocks, tables, idToTable>>
  /\ UNCHANGED web

\* One iteration of the while loop of the difference pass.
DiffIter ==
  /\ pc = "diff"
  /\ Len(remaining) >= 2
  /\ LET a == Head(remaining)
         rest == Tail(remaining)
         bestIdx == ScanMax(rest, a, 1, 1, -1)
     IN /\ remaining' = Splice(rest, bestIdx)
        /\ pairs' = Append(pairs, orderLeftRight(a, rest[bestIdx]))
  /\ UNCHANGED <<rows, pc, i, used, blocks, tables, idToTable>>
  /\ UNCHANGED web

\* The while loop ends: the odd remainder joins pairs[0], the pairs are typed.
ReturnBlocks ==
  /\ pc = "diff"
  /\ Len(remaining) < 2
  /\ pairs' = AttachLeftover(pairs, remaining)
  /\ blocks' = ToBlocks(pairs')
  /\ pc' = "matched"
  /\ UNCHANGED <<rows, i, used, remaining, tables, idToTable>>
  /\ UNCHANGED web

----------------------------------------------------------------------------
\* buildTables

EmptySeat(pos) == [pos |-> pos, empty |-> TRUE, id |-> NoId, blockType |-> "none"]

\* seat(block, idx, pos); idx counts from 1 here.
seat(block, idx, pos) ==
  IF idx > Len(block.members)
  THEN EmptySeat(pos)
  ELSE [pos |-> pos, empty |-> FALSE, id |-> block.members[idx].id,
        blockType |-> block.type]

\* The single-respondent table numbered from 0.
SoloTableZero(m) ==
  [tableNo |-> 0,
   seats |-> << [pos |-> "top-left", empty |-> FALSE, id |-> m.id,
                 blockType |-> "solo"],
                EmptySeat("top-right"),
                EmptySeat("bottom-left"),
                EmptySeat("bottom-right") >>]

SoloTable(m) ==
  [tableNo |-> 1,
   seats |-> << [pos |-> "top-left", empty |-> FALSE, id |-> m.id,
                 blockType |-> "solo"],
                EmptySeat("top-right"),
                EmptySeat("bottom-left"),
                EmptySeat("bottom-right") >>]

\* The triad table seating only the first two members.
TriadTableTwoSeats(tableNo, b) ==
  [tableNo |-> tableNo,
   seats |-> << seat(b, 1, "top-left"),
                seat(b, 2, "top-right"),
                EmptySeat("bottom-left"),
                EmptySeat("bottom-right") >>]

TriadTable(tableNo, b) ==
  [tableNo |-> tableNo,
   seats |-> << seat(b, 1, "top-left"),
                seat(b, 2, "top-right"),
                seat(b, 3, "bottom-left"),
                EmptySeat("bottom-right") >>]

TwoPairTable(tableNo, b, next) ==
  [tableNo |-> tableNo,
   seats |-> << seat(b, 1, "top-left"),
                seat(b, 2, "top-right"),
                seat(next, 1, "bottom-left"),
                seat(next, 2, "bottom-right") >>]

\* The trailing pair's table without its two empty bottom seats.
LonePairTableTwoSeats(tableNo, b) ==
  [tableNo |-> tableNo,
   seats |-> << seat(b, 1, "top-left"),
                seat(b, 2, "top-right") >>]

LonePairTable(tableNo, b) ==
  [tableNo |-> tableNo,
   seats |-> << seat(b, 1, "top-left"),
                seat(b, 2, "top-right"),
                EmptySeat("bottom-left"),
                EmptySeat("bottom-right") >>]

\* The packing loop giving every block a table of its own.
RECURSIVE PackOnePerTable(_, _, _)
PackOnePerTable(bs, k, tableNo) ==
  IF k > Len(bs) THEN <<>>
  ELSE IF bs[k].type = "triad"
       THEN <<TriadTable(tableNo, bs[k])>> \o PackOnePerTable(bs, k + 1, tableNo + 1)
  ELSE <<LonePairTable(tableNo, bs[k])>> \o PackOnePerTable(bs, k + 1, tableNo + 1)

\* while (i < blocks.length) { ... }, from cursor k and table number tableNo.
RECURSIVE PackFrom(_, _, _)
PackFrom(bs, k, tableNo) ==
  IF k > Len(bs) THEN <<>>
  ELSE IF bs[k].type = "triad"
       THEN <<TriadTable(tableNo, bs[k])>> \o PackFrom(bs, k + 1, tableNo + 1)
  ELSE IF k + 1 <= Len(bs) /\ bs[k + 1].type = "pair"
       THEN <<TwoPairTable(tableNo, bs[k], bs[k + 1])>>
              \o PackFrom(bs, k + 2, tableNo + 1)
  ELSE <<LonePairTable(tableNo, bs[k])>> \o PackFrom(bs, k + 1, tableNo + 1)

\* Map.set(key, value): a later set of the same key replaces the earlier one.
MapSet(m, key, value) ==
  [x \in (DOMAIN m) \cup {key} |-> IF x = key THEN value ELSE m[x]]

\* The index scan stopping after the first seat of a table.
IndexSeatsFirstOnly(m, t, seats, k) ==
  IF ~seats[1].empty /\ seats[1].id # NoId
  THEN [x \in (DOMAIN m) \cup {seats[1].id} |->
          IF x = seats[1].id THEN t.tableNo ELSE m[x]]
  ELSE m

\* for (const s of t.seats) if (s && !s.empty && s.id) idToTable.set(...)
RECURSIVE IndexSeats(_, _, _, _)
IndexSeats(m, t, seats, k) ==
  IF k > Len(seats) THEN m
  ELSE IF ~seats[k].empty /\ seats[k].id # NoId
       THEN IndexSeats(MapSet(m, seats[k].id, t.tableNo), t, seats, k + 1)
       ELSE IndexSeats(m, t, seats, k + 1)

\* for (const t of tables) ...
RECURSIVE BuildIndex(_, _, _)
BuildIndex(m, ts, k) ==
  IF k > Len(ts) THEN m
  ELSE BuildIndex(IndexSeats(m, ts[k], ts[k].seats, 1), ts, k + 1)

\* rows.length > 0 && blocks.length === 0: the single-respondent table.
BuildTablesSolo ==
  /\ pc = "matched"
  /\ Len(rows) > 0 /\ Len(blocks) = 0
  /\ tables' = <<SoloTable(rows[1])>>
  /\ idToTable' = MapSet(<<>>, rows[1].id, 1)
  /\ pc' = "done"
  /\ UNCHANGED <<rows, i, used, pairs, remaining, blocks>>
  /\ UNCHANGED web

\* The packing loop and the index scan.
BuildTablesPack ==
  /\ pc = "matched"
  /\ ~(Len(rows) > 0 /\ Len(blocks) = 0)
  /\ tables' = PackFrom(blocks, 1, 1)
  /\ idToTable' = BuildIndex(<<>>, tables', 1)
  /\ pc' = "done"
  /\ UNCHANGED <<rows, i, used, pairs, remaining, blocks>>
  /\ UNCHANGED web

Next ==
  \/ SimIter
  \/ SimDone
  \/ DiffIter
  \/ ReturnBlocks
  \/ BuildTablesSolo
  \/ BuildTablesPack

Spec == Init /\ [][Next]_vars

\* Longer lists with q2 and q4 fixed, so that several blocks and several
\* tables arise.
WideAttrs == [q1 : BOOLEAN, q2 : {FALSE}, q3 : BOOLEAN, q4 : {FALSE}]

InitWide ==
  /\ \E n \in 0..MaxWide : \E f \in [1..n -> WideAttrs] :
       rows = [k \in 1..n |-> Respondent(k, f[k])]
  /\ pc = "sim"
  /\ i = 1
  /\ used = {}
  /\ pairs = <<>>
  /\ remaining = <<>>
  /\ blocks = <<>>
  /\ tables = <<>>
  /\ idToTable = <<>>
  /\ WebIdle

SpecWide == InitWide /\ [][Next]_vars

\* orderLeftRight applied to two respondents in both argument orders.
InitOrder ==
  /\ \E fa \in Attrs : \E fb \in Attrs :
       rows = <<Respondent(1, fa), Respondent(2, fb)>>
  /\ pc = "order"
  /\ i = 1
  /\ used = {}
  /\ pairs = <<>>
  /\ remaining = <<>>
  /\ blocks = <<>>
  /\ tables = <<>>
  /\ idToTable = <<>>
  /\ WebIdle

OrderBoth ==
  /\ pc = "order"
  /\ pairs' = <<orderLeftRight(rows[1], rows[2]), orderLeftRight(rows[2], rows[1])>>
  /\ pc' = "ordered"
  /\ UNCHANGED <<rows, i, used, remaining, blocks, tables, idToTable>>
  /\ UNCHANGED web

NextOrder == OrderBoth

SpecOrder == InitOrder /\ [][NextOrder]_vars

\* Five respondents of whom exactly three have q3 = FALSE.
InitFive ==
  /\ \E f \in [1..5 -> Attrs] :
       /\ Cardinality({k \in 1..5 : f[k].q3 = FALSE}) = 3
       /\ rows = [k \in 1..5 |-> Respondent(k, f[k])]
  /\ pc = "sim"
  /\ i = 1
  /\ used = {}
  /\ pairs = <<>>
  /\ remaining = <<>>
  /\ blocks = <<>>
  /\ tables = <<>>
  /\ idToTable = <<>>
  /\ WebIdle

\* With five rows assignSeats returns two blocks, so buildTables goes past
\* its solo branch (rows.length > 0 && blocks.length === 0) to the packing.
NextFive ==
  \/ SimIter
  \/ SimDone
  \/ DiffIter
  \/ ReturnBlocks
  \/ BuildTablesPack

SpecFive == InitFive /\ [][NextFive]_vars

----------------------------------------------------------------------------
\* The handlers around the seat logic

\* Emails of the people who answer; one more has a manual seat only.
Emails == {1, 2}

SeatEmails == {1, 2, 3}

Positions == {"top-left", "top-right", "bottom-left", "bottom-right"}

\* `manual:${email}`, distinct from every generated id.
ManualId(email) == 100 + email

\* The seat logic's locals between two calls of buildTables.
CoreIdle ==
  /\ rows = <<>>
  /\ pc = "idle"
  /\ i = 1
  /\ used = {}
  /\ pairs = <<>>
  /\ remaining = <<>>
  /\ blocks = <<>>
  /\ tables = <<>>
  /\ idToTable = <<>>

\* responses.filter(r => r.is_absent !== true)
IsActive(r) == r.is_absent # TRUE

IsAbsent(r) == r.is_absent = TRUE

\* upsertResponseByEmail: a new row, or the row of that email updated; the
\* update keeps id and is_absent and renews created_at, which moves the row
\* to the end of ORDER BY created_at.
Upsert(store, rec) ==
  IF \E k \in 1..Len(store) : store[k].email = rec.email
  THEN LET k == CHOOSE j \in 1..Len(store) : store[j].email = rec.email
       IN Append(Splice(store, k),
                 [rec EXCEPT !.id = store[k].id, !.is_absent = store[k].is_absent])
  ELSE Append(store, rec)

\* POST /api/responses up to the upsert: readState, the 403 when published,
\* else the record with a fresh id.
PostReadState ==
  /\ pc = "idle"
  /\ post.pc = "idle"
  /\ nextId <= MaxPosts
  /\ IF published
     THEN /\ post' = [pc |-> "idle", reply |-> "forbidden"]
          /\ UNCHANGED nextId
     ELSE /\ \E e \in Emails : \E f \in WideAttrs :
               post' = [pc |-> "upsert", reply |-> "none",
                        record |-> [id |-> IdAt(nextId), email |-> e,
                                    is_absent |-> FALSE, q1 |-> f.q1,
                                    q2 |-> f.q2, q3 |-> f.q3, q4 |-> f.q4]]
          /\ nextId' = nextId + 1
  /\ UNCHANGED <<rows, pc, i, used, pairs, remaining, blocks, tables, idToTable>>
  /\ UNCHANGED <<published, responses, overrides, myseat, reset>>

\* POST /api/responses: the upsert and the reply.
PostUpsert ==
  /\ pc = "idle"
  /\ post.pc = "upsert"
  /\ responses' = Upsert(responses, post.record)
  /\ post' = [pc |-> "idle", reply |-> "ok"]
  /\ UNCHANGED <<rows, pc, i, used, pairs, remaining, blocks, tables, idToTable>>
  /\ UNCHANGED <<published, overrides, nextId, myseat, reset>>

\* POST /api/publish with body { publish }.
Publish ==
  /\ pc = "idle"
  /\ \E b \in BOOLEAN : published' = b
  /\ UNCHANGED <<rows, pc, i, used, pairs, remaining, blocks, tables, idToTable>>
  /\ UNCHANGED <<responses, overrides, nextId, myseat, post, reset>>

\* POST /api/reset: resetResponses.
ResetDelete ==
  /\ pc = "idle"
  /\ reset = "idle"
  /\ responses' = <<>>
  /\ reset' = "deleted"
  /\ UNCHANGED <<rows, pc, i, used, pairs, remaining, blocks, tables, idToTable>>
  /\ UNCHANGED <<published, overrides, nextId, myseat, post>>

\* POST /api/reset: setPublished(eventId, false).
ResetUnpublish ==
  /\ pc = "idle"
  /\ reset = "deleted"
  /\ published' = FALSE
  /\ reset' = "idle"
  /\ UNCHANGED <<rows, pc, i, used, pairs, remaining, blocks, tables, idToTable>>
  /\ UNCHANGED <<responses, overrides, nextId, myseat, post>>

\* GET /api/myseat?id=...: readState and the published:false reply.
MyseatReadState ==
  /\ pc = "idle"
  /\ myseat.pc = "idle"
  /\ \E q \in {IdAt(k) : k \in 1..MaxPosts} :
       myseat' = IF ~published
                 THEN [pc |-> "idle", id |-> NoId, reply |-> "unpublished",
                       tableNo |-> 0]
                 ELSE [pc |-> "load", id |-> q, reply |-> "none", tableNo |-> 0]
  /\ UNCHANGED <<rows, pc, i, used, pairs, remaining, blocks, tables, idToTable>>
  /\ UNCHANGED <<published, responses, overrides, nextId, post, reset>>

\* GET /api/myseat: loadResponses, the absent rows filtered out, and the
\* entry into buildTables.
MyseatLoad ==
  /\ pc = "idle"
  /\ myseat.pc = "load"
  /\ rows' = SelectSeq(responses, IsActive)
  /\ pc' = "sim"
  /\ myseat' = [myseat EXCEPT !.pc = "computing"]
  /\ UNCHANGED <<i, used, pairs, remaining, blocks, tables, idToTable>>
  /\ UNCHANGED <<published, responses, overrides, nextId, post, reset>>

\* GET /api/myseat: buildTables has returned; found:false or the seat.
MyseatRespond ==
  /\ pc = "done"
  /\ myseat.pc = "computing"
  /\ myseat' = IF myseat.id \in DOMAIN idToTable
               THEN [pc |-> "idle", id |-> NoId, reply |-> "seat",
                     tableNo |-> idToTable[myseat.id]]
               ELSE [pc |-> "idle", id |-> NoId, reply |-> "notfound",
                     tableNo |-> 0]
  /\ rows' = <<>>
  /\ pc' = "idle"
  /\ i' = 1
  /\ used' = {}
  /\ pairs' = <<>>
  /\ remaining' = <<>>
  /\ blocks' = <<>>
  /\ tables' = <<>>
  /\ idToTable' = <<>>
  /\ UNCHANGED <<published, responses, overrides, nextId, post, reset>>

\* Nothing stored, nothing published, no request in flight.
InitPublish ==
  /\ CoreIdle
  /\ WebIdle

NextPublish ==
  \/ PostReadState
  \/ PostUpsert
  \/ Publish
  \/ ResetDelete
  \/ ResetUnpublish
  \/ MyseatReadState
  \/ MyseatLoad
  \/ SimIter
  \/ SimDone
  \/ DiffIter
  \/ ReturnBlocks
  \/ BuildTablesSolo
  \/ BuildTablesPack
  \/ MyseatRespond

SpecPublish == InitPublish /\ [][NextPublish]_vars

\* The seat an override writes: the active response's id, else manual:email.
ManualSeat(pos, o, active) ==
  [pos |-> pos, empty |-> FALSE,
   id |-> IF \E k \in 1..Len(active) : active[k].email = o.email
          THEN active[CHOOSE k \in 1..Len(active) : active[k].email = o.email].id
          ELSE ManualId(o.email),
   blockType |-> "manual"]

\* One turn of for (const o of overrides): the table by number, the seat by
\* position, overwritten; an override of an unknown table is skipped.
ApplyOverride(ts, o, active) ==
  [t \in 1..Len(ts) |->
     IF ts[t].tableNo = o.table_no
     THEN [ts[t] EXCEPT !.seats =
             [s \in 1..Len(ts[t].seats) |->
                IF ts[t].seats[s].pos = o.pos
                THEN ManualSeat(o.pos, o, active)
                ELSE ts[t].seats[s]]]
     ELSE ts[t]]

RECURSIVE ApplyOverrides(_, _, _, _)
ApplyOverrides(ts, os, k, active) ==
  IF k > Len(os) THEN ts
  ELSE ApplyOverrides(ApplyOverride(ts, os[k], active), os, k + 1, active)

\* The index rebuilt after the overrides: if (!s.empty) idToTable.set(...)
RECURSIVE IndexNonEmpty(_, _, _, _)
IndexNonEmpty(m, t, seats, k) ==
  IF k > Len(seats) THEN m
  ELSE IF ~seats[k].empty
       THEN IndexNonEmpty(MapSet(m, seats[k].id, t.tableNo), t, seats, k + 1)
       ELSE IndexNonEmpty(m, t, seats, k + 1)

RECURSIVE RebuildIndex(_, _, _)
RebuildIndex(m, ts, k) ==
  IF k > Len(ts) THEN m
  ELSE RebuildIndex(IndexNonEmpty(m, ts[k], ts[k].seats, 1), ts, k + 1)

\* The stored rows GET /api/assignments starts from: up to MaxResp
\* responses, any of them flagged absent, and at most one manual seat.
InitAssign ==
  /\ \E n \in 1..MaxResp : \E f \in [1..n -> WideAttrs] : \E ab \in [1..n -> BOOLEAN] :
       responses = [k \in 1..n |->
                      [id |-> IdAt(k), email |-> k, is_absent |-> ab[k],
                       q1 |-> f[k].q1, q2 |-> f[k].q2, q3 |-> f[k].q3,
                       q4 |-> f[k].q4]]
  /\ \/ overrides = <<>>
     \/ \E e \in SeatEmails : \E t \in 1..2 : \E p \in Positions :
          overrides = <<[email |-> e, table_no |-> t, pos |-> p]>>
  /\ published = FALSE
  /\ nextId = 1
  /\ myseat = MyseatIdle
  /\ post = PostIdle
  /\ reset = "idle"
  /\ CoreIdle

\* GET /api/assignments: the three loads, the absent rows filtered out, and
\* the entry into buildTables.
AssignLoad ==
  /\ pc = "idle"
  /\ rows' = SelectSeq(responses, IsActive)
  /\ pc' = "sim"
  /\ UNCHANGED <<i, used, pairs, remaining, blocks, tables, idToTable>>
  /\ UNCHANGED web

\* GET /api/assignments: buildTables has returned; the manual seats are
\* written over the tables, the index is rebuilt, the tables are sent.
AssignOverride ==
  /\ pc = "done"
  /\ tables' = ApplyOverrides(tables, overrides, 1, rows)
  /\ idToTable' = RebuildIndex(<<>>, tables', 1)
  /\ pc' = "assigned"
  /\ UNCHANGED <<rows, i, used, pairs, remaining, blocks>>
  /\ UNCHANGED web

NextAssign ==
  \/ AssignLoad
  \/ SimIter
  \/ SimDone
  \/ DiffIter
  \/ ReturnBlocks
  \/ BuildTablesSolo
  \/ BuildTablesPack
  \/ AssignOverride

SpecAssign == InitAssign /\ [][NextAssign]_vars

----------------------------------------------------------------------------
\* Vocabulary of the properties

\* assignSeats has returned.
Matched == pc \in {"matched", "done"}

\* Index of the respondent with this id in the input list.
PosOf(id) == CHOOSE k \in 1..Len(rows) : rows[k].id = id

InputIds == {rows[k].id : k \in 1..Len(rows)}

\* The member positions <<block, index>> of the returned blocks.
BlockSlots ==
  {s \in (1..Len(blocks)) \X (1..3) : s[2] <= Len(blocks[s[1]].members)}

SlotsOf(id) == {s \in BlockSlots : blocks[s[1]].members[s[2]].id = id}

EveryIdInOneBlock ==
  /\ Cardinality(BlockSlots) = Len(rows)
  /\ \A id \in InputIds : Cardinality(SlotsOf(id)) = 1

Triads == {k \in 1..Len(blocks) : blocks[k].type = "triad"}

\* used only receives ids in the similarity pass, so these are the blocks
\* that pass formed.
SimBlocks == {k \in 1..Len(blocks) : blocks[k].members[1].id \in used}

----------------------------------------------------------------------------
\* C1 (as stated): for every input list, the empty and the one-respondent
\* list included, the blocks hold exactly Len(rows) members and every input
\* id sits in exactly one block.
C1_EveryListPartitioned == Matched => EveryIdInOneBlock

\* C1 (amended): for every input list that does not consist of exactly one
\* respondent the blocks hold exactly Len(rows) members and every input id
\* sits in exactly one block; a single respondent is in no block.
C1_PartitionUnlessSingleton ==
  Matched =>
    /\ Len(rows) # 1 => EveryIdInOneBlock
    /\ Len(rows) = 1 => blocks = <<>>

\* An odd list whose leftover was attached: three respondents in one block.
C1_Witness ==
  /\ Matched
  /\ Len(rows) = 3
  /\ Len(blocks) = 1
  /\ Len(blocks[1].members) = 3

\* C2: at most one block has type triad; a triad has exactly 3 members and
\* every other block has type pair and exactly 2 members.
C2_AtMostOneTriad ==
  Matched =>
    /\ Cardinality(Triads) <= 1
    /\ \A k \in 1..Len(blocks) :
         \/ blocks[k].type = "triad" /\ Len(blocks[k].members) = 3
         \/ blocks[k].type = "pair" /\ Len(blocks[k].members) = 2

\* A triad next to at least two pairs.
C2_Witness ==
  /\ Matched
  /\ Len(blocks) >= 3
  /\ Triads # {}

\* C3: a triad is only produced for an odd number of respondents; for an
\* even number every block is a pair.
C3_TriadOnlyWhenOdd ==
  Matched =>
    /\ Triads # {} => Len(rows) % 2 = 1
    /\ Len(rows) % 2 = 0 => \A k \in 1..Len(blocks) : blocks[k].type = "pair"

\* Four respondents paired once by each pass.
C3_Witness ==
  /\ Matched
  /\ Len(rows) = 4
  /\ Len(blocks) = 2
  /\ Cardinality(used) = 2
  /\ Triads = {}

\* C4 (as stated): for every two respondents, orderLeftRight gives the same
\* ordered pair for [a,b] and for [b,a].
C4_SwapGivesSameOrder == pc = "ordered" => pairs[1] = pairs[2]

\* C4 (amended): when the q4 values of a and b differ, orderLeftRight gives
\* the same ordered pair for [a,b] and for [b,a]; when they are equal each
\* call returns its arguments in the order given.
C4_SwapGivesSameOrderWhenQ4Differs ==
  pc = "ordered" =>
    /\ rows[1].q4 # rows[2].q4 => pairs[1] = pairs[2]
    /\ rows[1].q4 = rows[2].q4 =>
         /\ pairs[1] = <<rows[1], rows[2]>>
         /\ pairs[2] = <<rows[2], rows[1]>>

\* A listener given first and a talker second, ordered both ways.
C4_Witness ==
  /\ pc = "ordered"
  /\ rows[1].q4 = TRUE
  /\ rows[2].q4 = FALSE
  /\ pairs[1] = <<rows[2], rows[1]>>

\* C5: in every returned block the first two members are talker then
\* listener when their q4 values differ, and in input order when their q4
\* values are equal.
C5_TalkerLeftElseInputOrder ==
  Matched =>
    \A k \in 1..Len(blocks) :
      LET l == blocks[k].members[1]
          r == blocks[k].members[2]
      IN /\ l.q4 # r.q4 => l.q4 = FALSE /\ r.q4 = TRUE
         /\ l.q4 = r.q4 => PosOf(l.id) < PosOf(r.id)

\* A block whose talker came later in the input than its listener, next to
\* a block of two members with equal q4.
C5_Witness ==
  /\ Matched
  /\ \E k \in 1..Len(blocks) :
       /\ blocks[k].members[1].q4 # blocks[k].members[2].q4
       /\ PosOf(blocks[k].members[1].id) > PosOf(blocks[k].members[2].id)
  /\ \E k \in 1..Len(blocks) :
       blocks[k].members[1].q4 = blocks[k].members[2].q4

\* C6 (as stated): in the final output every block formed in the similarity
\* pass has only q3 = FALSE members, odd-length inputs included.
C6_SimBlocksOnlyNoQ3 ==
  Matched =>
    \A k \in SimBlocks :
      \A j \in 1..Len(blocks[k].members) : blocks[k].members[j].q3 = FALSE

\* C6 (amended): in the final output the two paired members of every block
\* formed in the similarity pass have q3 = FALSE; a member with q3 = TRUE
\* can only be the leftover attached as third member of the first block.
C6_SimBlocksPairedNoQ3 ==
  Matched =>
    \A k \in SimBlocks :
      /\ blocks[k].members[1].q3 = FALSE
      /\ blocks[k].members[2].q3 = FALSE
      /\ \A j \in 1..Len(blocks[k].members) :
           blocks[k].members[j].q3 = TRUE => k = 1 /\ j = 3

\* A similarity block that received a q3 = TRUE leftover.
C6_Witness ==
  /\ Matched
  /\ 1 \in SimBlocks
  /\ Len(blocks[1].members) = 3
  /\ blocks[1].members[3].q3 = TRUE

\* C7: whenever the similarity pass forms a pair (a, b), a is an unmatched
\* q3 = FALSE respondent, b is another unmatched q3 = FALSE respondent, d(a,b)
\* is the least d(a,c) over all still unmatched q3 = FALSE respondents c, and
\* b is the earliest in input order among those at that distance.
C7_SimilarityPicksNearestFirst ==
  [][ (pc = "sim" /\ pairs' # pairs) =>
        LET a == noQ3[i]
            cands == {c \in 1..Len(rows) :
                        /\ rows[c].q3 = FALSE
                        /\ rows[c].id \notin used
                        /\ rows[c].id # a.id}
        IN /\ a.q3 = FALSE
           /\ a.id \notin used
           /\ Len(pairs') = Len(pairs) + 1
           /\ \E b \in cands :
                /\ used' = used \cup {a.id, rows[b].id}
                /\ {pairs'[Len(pairs')][1], pairs'[Len(pairs')][2]} = {a, rows[b]}
                /\ \A c \in cands :
                     /\ hammingQ1Q2(a, rows[b]) <= hammingQ1Q2(a, rows[c])
                     /\ hammingQ1Q2(a, rows[b]) = hammingQ1Q2(a, rows[c]) => b <= c
    ]_vars

\* The first similarity pair skipped the next q3 = FALSE respondent for a
\* nearer one further down the list.
C7_Witness ==
  /\ pc = "sim"
  /\ i = 2
  /\ Len(pairs) = 1
  /\ Len(noQ3) >= 3
  /\ noQ3[2].id \notin used

\* C8: every table has exactly 4 seats named top-left, top-right,
\* bottom-left, bottom-right in that order, and the tables are numbered
\* 1, 2, ..., k.
C8_FourSeatsNumberedFromOne ==
  pc = "done" =>
    \A k \in 1..Len(tables) :
      /\ tables[k].tableNo = k
      /\ Len(tables[k].seats) = 4
      /\ tables[k].seats[1].pos = "top-left"
      /\ tables[k].seats[2].pos = "top-right"
      /\ tables[k].seats[3].pos = "bottom-left"
      /\ tables[k].seats[4].pos = "bottom-right"

\* Two tables, a full one followed by one holding a lone pair.
C8_Witness ==
  /\ pc = "done"
  /\ Len(tables) = 2
  /\ ~tables[1].seats[4].empty
  /\ tables[2].seats[3].empty
  /\ ~tables[2].seats[2].empty

\* The occupied seats <<table index, seat index>> of the returned tables.
OccupiedSeats ==
  {s \in (1..Len(tables)) \X (1..4) :
     s[2] <= Len(tables[s[1]].seats) /\ ~tables[s[1]].seats[s[2]].empty}

\* C9: idToTable is exactly the set of (id, tableNo) of the occupied seats:
\* each occupied seat's id maps to its table number, no id occupies two
\* seats, and the index has no other key.
C9_IndexIsOccupiedSeats ==
  pc = "done" =>
    /\ \A s \in OccupiedSeats :
         /\ tables[s[1]].seats[s[2]].id \in DOMAIN idToTable
         /\ idToTable[tables[s[1]].seats[s[2]].id] = tables[s[1]].tableNo
    /\ \A s \in OccupiedSeats : \A u \in OccupiedSeats :
         tables[s[1]].seats[s[2]].id = tables[u[1]].seats[u[2]].id => s = u
    /\ DOMAIN idToTable = {tables[s[1]].seats[s[2]].id : s \in OccupiedSeats}

\* An index over a triad table and a full table: seven occupied seats.
C9_Witness ==
  /\ pc = "done"
  /\ Len(tables) = 2
  /\ Cardinality(OccupiedSeats) = 7
  /\ Cardinality(DOMAIN idToTable) = 7
  /\ \E id \in DOMAIN idToTable : idToTable[id] = 2

\* C10: for a list of exactly one respondent assignSeats returns no block
\* and buildTables returns one table, numbered 1, with that respondent in
\* the top-left seat as blockType solo, the other three seats empty, and
\* idToTable mapping the respondent's id to 1.
C10_SingleRespondentSoloTable ==
  (pc = "done" /\ Len(rows) = 1) =>
    /\ blocks = <<>>
    /\ Len(tables) = 1
    /\ tables[1].tableNo = 1
    /\ Len(tables[1].seats) = 4
    /\ tables[1].seats[1] = [pos |-> "top-left", empty |-> FALSE,
                              id |-> rows[1].id, blockType |-> "solo"]
    /\ tables[1].seats[2].pos = "top-right" /\ tables[1].seats[2].empty
    /\ tables[1].seats[3].pos = "bottom-left" /\ tables[1].seats[3].empty
    /\ tables[1].seats[4].pos = "bottom-right" /\ tables[1].seats[4].empty
    /\ DOMAIN idToTable = {rows[1].id}
    /\ idToTable[rows[1].id] = 1

\* The layout of a single respondent has been returned.
C10_Witness ==
  /\ pc = "done"
  /\ Len(rows) = 1
  /\ Len(tables) = 1
  /\ ~tables[1].seats[1].empty

\* The seats <<seat index>> of table t that are occupied.
OccupiedAt(t) == {s \in 1..Len(tables[t].seats) : ~tables[t].seats[s].empty}

\* C11: a triad is placed alone on one table: its three members sit at
\* top-left, top-right and bottom-left in member order, bottom-right is
\* empty, and nobody else sits at that table.
C11_TriadAloneOnItsTable ==
  pc = "done" =>
    \A k \in Triads :
      \E t \in 1..Len(tables) :
        LET st == tables[t].seats
            m == blocks[k].members
        IN /\ OccupiedAt(t) = {1, 2, 3}
           /\ st[1].pos = "top-left" /\ st[1].id = m[1].id
           /\ st[2].pos = "top-right" /\ st[2].id = m[2].id
           /\ st[3].pos = "bottom-left" /\ st[3].id = m[3].id
           /\ st[4].pos = "bottom-right" /\ st[4].empty
           /\ \A s \in 1..3 : st[s].blockType = "triad"

\* A triad table followed by a table of pairs.
C11_Witness ==
  /\ pc = "done"
  /\ Triads = {1}
  /\ Len(tables) = 2
  /\ OccupiedAt(1) = {1, 2, 3}
  /\ OccupiedAt(2) = {1, 2}

\* The part of C12 that holds for every such input: the similarity pass
\* pairs two q3 = FALSE respondents, the difference pass forms one pair, the
\* respondent left over is the third member of the first-produced pair, and
\* the layout is a triad table (3 seats filled) and a table with 2 filled.
FiveShape ==
  /\ Cardinality(used) = 2
  /\ \A k \in 1..5 : rows[k].id \in used => rows[k].q3 = FALSE
  /\ Len(blocks) = 2
  /\ blocks[1].type = "triad" /\ blocks[2].type = "pair"
  /\ {blocks[1].members[1].id, blocks[1].members[2].id} = used
  /\ Len(remaining) = 1
  /\ blocks[1].members[3] = remaining[1]
  /\ Len(tables) = 2
  /\ OccupiedAt(1) = {1, 2, 3}
  /\ \A s \in 1..3 : tables[1].seats[s].id = blocks[1].members[s].id
  /\ OccupiedAt(2) = {1, 2}
  /\ \A s \in 1..2 : tables[2].seats[s].id = blocks[2].members[s].id

\* C12 (as stated): for every input of 5 respondents with exactly 3
\* q3 = FALSE, the two q3 = TRUE respondents are paired with each other in the
\* difference pass and the remaining q3 = FALSE respondent is the one
\* attached to the first-produced pair.
C12_TruePairAndNoQ3Leftover ==
  pc = "done" =>
    /\ FiveShape
    /\ blocks[2].members[1].q3 = TRUE
    /\ blocks[2].members[2].q3 = TRUE
    /\ blocks[1].members[3].q3 = FALSE

\* C12 (amended): for every such input the similarity pass pairs two of the
\* q3 = FALSE respondents, the difference pass pairs two of the remaining
\* three respondents, starting from the earliest of them in input order, and
\* the one left over joins the first-produced pair as third member; the two
\* q3 = TRUE respondents form the difference pair only if the earliest
\* remaining respondent has q3 = TRUE.
C12_OnePairOneTriad ==
  pc = "done" =>
    /\ FiveShape
    /\ \A k \in 1..5 :
         rows[k].id \notin used =>
           PosOf(blocks[2].members[1].id) <= k \/ PosOf(blocks[2].members[2].id) <= k
    /\ (blocks[2].members[1].q3 = TRUE /\ blocks[2].members[2].q3 = TRUE) =>
         \A k \in 1..5 :
           (rows[k].id \notin used /\ rows[k].q3 = FALSE) =>
             \E j \in 1..(k - 1) : rows[j].q3 = TRUE

\* The unmatched q3 = FALSE respondent was paired with a q3 = TRUE one and
\* the other q3 = TRUE respondent became the third member.
C12_Witness ==
  /\ pc = "done"
  /\ Len(rows) = 5
  /\ Len(blocks) = 2
  /\ blocks[1].members[3].q3 = TRUE
  /\ blocks[2].members[1].q3 # blocks[2].members[2].q3

\* Four respondents, all q3 = FALSE, two of them with identical (q1, q2) and
\* the other two differing from each other in both q1 and q2.
TwoAlikeTwoOpposite ==
  /\ Len(rows) = 4
  /\ \A k \in 1..4 : rows[k].q3 = FALSE
  /\ \E x \in 1..4 : \E y \in 1..4 : \E z \in 1..4 : \E w \in 1..4 :
       /\ Cardinality({x, y, z, w}) = 4
       /\ hammingQ1Q2(rows[x], rows[y]) = 0
       /\ hammingQ1Q2(rows[z], rows[w]) = 2

\* The blocks are one pair of identical and one pair of opposite respondents.
AlikeAndOppositePaired ==
  /\ Len(blocks) = 2
  /\ \E k \in 1..2 :
       /\ hammingQ1Q2(blocks[k].members[1], blocks[k].members[2]) = 0
       /\ hammingQ1Q2(blocks[3 - k].members[1], blocks[3 - k].members[2]) = 2

\* Both pairs on one table with all four seats occupied.
OneFullTable ==
  /\ Len(blocks) = 2
  /\ blocks[1].type = "pair" /\ blocks[2].type = "pair"
  /\ Len(tables) = 1
  /\ OccupiedAt(1) = {1, 2, 3, 4}
  /\ tables[1].seats[1].id = blocks[1].members[1].id
  /\ tables[1].seats[2].id = blocks[1].members[2].id
  /\ tables[1].seats[3].id = blocks[2].members[1].id
  /\ tables[1].seats[4].id = blocks[2].members[2].id

\* The least distance from the first respondent to another one.
FirstNearest ==
  CHOOSE d \in 0..2 :
    /\ \E k \in 2..Len(rows) : hammingQ1Q2(rows[1], rows[k]) = d
    /\ \A k \in 2..Len(rows) : hammingQ1Q2(rows[1], rows[k]) >= d

\* C13 (as stated): for every such input, in any order, the identical two
\* are paired together and the opposite two are paired together, and both
\* pairs share one table with 4 occupied seats.
C13_AlikeTogetherOppositeTogether ==
  (pc = "done" /\ TwoAlikeTwoOpposite) =>
    /\ AlikeAndOppositePaired
    /\ OneFullTable

\* C13 (amended): for every such input both pairs share one table with 4
\* occupied seats; the pairs are one identical and one opposite pair exactly
\* when the first respondent in input order is identical to another
\* respondent or opposite to all three others (its nearest other respondent
\* is not at distance 1).
C13_AlikeTogetherUnlessFirstIsBetween ==
  (pc = "done" /\ TwoAlikeTwoOpposite) =>
    /\ OneFullTable
    /\ AlikeAndOppositePaired <=> FirstNearest # 1

\* The two identical respondents come last and are still paired together.
C13_Witness ==
  /\ pc = "done"
  /\ TwoAlikeTwoOpposite
  /\ AlikeAndOppositePaired
  /\ hammingQ1Q2(rows[3], rows[4]) = 0
  /\ hammingQ1Q2(rows[1], rows[2]) = 2
  /\ Len(tables) = 1

\* Ids of the respondents that are in no pair yet.
UnmatchedIds ==
  InputIds \ {pairs[k][j].id : k \in 1..Len(pairs), j \in 1..2}

\* C15: each step of the difference pass takes the first still unmatched
\* respondent a in input order and pairs it with the still unmatched b of
\* greatest d(a,b), the earliest such b in input order; the pass goes on
\* until fewer than 2 respondents are unmatched.
C15_DifferencePicksFarthestFirst ==
  [][ /\ (pc = "diff" /\ pairs' # pairs /\ pc' = "diff") =>
           \E a \in UnmatchedIds : \E b \in UnmatchedIds \ {a} :
             /\ \A c \in UnmatchedIds : PosOf(a) <= PosOf(c)
             /\ \A c \in UnmatchedIds \ {a} :
                  /\ hammingQ1Q2(rows[PosOf(a)], rows[PosOf(b)])
                       >= hammingQ1Q2(rows[PosOf(a)], rows[PosOf(c)])
                  /\ hammingQ1Q2(rows[PosOf(a)], rows[PosOf(b)])
                       = hammingQ1Q2(rows[PosOf(a)], rows[PosOf(c)])
                     => PosOf(b) <= PosOf(c)
             /\ Len(pairs') = Len(pairs) + 1
             /\ {pairs'[Len(pairs')][1], pairs'[Len(pairs')][2]}
                  = {rows[PosOf(a)], rows[PosOf(b)]}
             /\ UnmatchedIds' = UnmatchedIds \ {a, b}
      /\ (pc = "diff" /\ pc' = "matched") => Cardinality(UnmatchedIds) < 2
    ]_vars

\* The difference pass paired its first respondent with a farther one than
\* the next in line.
C15_Witness ==
  /\ pc = "diff"
  /\ used = {}
  /\ Len(rows) = 4
  /\ Len(pairs) = 1
  /\ Len(remaining) = 2
  /\ remaining[1] = rows[2]

\* C16: when exactly one respondent is unmatched after the difference pass
\* and a block exists, that respondent is the third and last member of the
\* first block produced, whose first two members keep their order, and every
\* other block is unchanged.
C16_LeftoverJoinsFirstBlock ==
  [][ (pc = "diff" /\ pc' = "matched"
         /\ Cardinality(UnmatchedIds) = 1 /\ Len(pairs) > 0) =>
        /\ Len(blocks') = Len(pairs)
        /\ Len(blocks'[1].members) = 3
        /\ blocks'[1].members[1] = pairs[1][1]
        /\ blocks'[1].members[2] = pairs[1][2]
        /\ blocks'[1].members[3].id \in UnmatchedIds
        /\ SubSeq(blocks'[1].members, 1, 2)
             = orderLeftRight(pairs[1][1], pairs[1][2])
        /\ \A k \in 2..Len(pairs) : blocks'[k].members = pairs[k]
    ]_vars

\* Five respondents: the leftover joined the first of two blocks.
C16_Witness ==
  /\ pc = "matched"
  /\ Len(rows) = 5
  /\ Len(blocks) = 2
  /\ Len(blocks[1].members) = 3
  /\ Len(blocks[2].members) = 2

\* Indices of the blocks of type pair, and the rank of one among them.
PairBlocks == {k \in 1..Len(blocks) : blocks[k].type = "pair"}

PairRank(k) == Cardinality({j \in PairBlocks : j <= k})

\* Tables with exactly the two top seats occupied.
HalfTables == {t \in 1..Len(tables) : OccupiedAt(t) = {1, 2}}

\* C17: consecutive pair blocks are packed two per table in block order,
\* the first of the two at top-left/top-right and the second at
\* bottom-left/bottom-right; at most one table has exactly two occupants and
\* an empty bottom row, and such a table is the last one.
C17_PairsPackedTwoPerTable ==
  pc = "done" =>
    /\ \A k \in PairBlocks :
         LET t == Cardinality(Triads) + (PairRank(k) + 1) \div 2
             low == IF PairRank(k) % 2 = 1 THEN 1 ELSE 3
         IN /\ t <= Len(tables)
            /\ tables[t].seats[low].id = blocks[k].members[1].id
            /\ tables[t].seats[low + 1].id = blocks[k].members[2].id
            /\ ~tables[t].seats[low].empty
            /\ ~tables[t].seats[low + 1].empty
    /\ Cardinality(HalfTables) <= 1
    /\ \A t \in HalfTables : t = Len(tables)

\* Three pairs: a full table followed by a half-filled last table.
C17_Witness ==
  /\ pc = "done"
  /\ Len(blocks) = 3
  /\ Triads = {}
  /\ Len(tables) = 2
  /\ OccupiedAt(1) = {1, 2, 3, 4}
  /\ HalfTables = {2}

\* C19: a triad is always the first block returned, so it sits at table 1
\* and every later table holds members of pair blocks only.
C19_TriadFirstBlockFirstTable ==
  /\ Matched => Triads \subseteq {1}
  /\ (pc = "done" /\ Triads # {}) =>
       /\ tables[1].tableNo = 1
       /\ \A s \in 1..3 :
            /\ tables[1].seats[s].blockType = "triad"
            /\ tables[1].seats[s].id = blocks[1].members[s].id
       /\ \A t \in 2..Len(tables) : \A s \in OccupiedAt(t) :
            tables[t].seats[s].blockType = "pair"

\* Seven respondents: the triad at table 1 and two pairs at table 2.
C19_Witness ==
  /\ pc = "done"
  /\ Len(rows) = 7
  /\ Triads = {1}
  /\ Len(tables) = 2
  /\ OccupiedAt(2) = {1, 2, 3, 4}

\* C14: GET /api/myseat never sends a reply carrying a table number while
\* the stored published flag is false, whatever publish, unpublish and reset
\* requests run in between.
C14_NoSeatWhileUnpublished ==
  [][ (myseat.pc = "computing" /\ myseat'.pc = "idle" /\ myseat'.reply = "seat")
        => published ]_vars

\* C18: in the tables GET /api/assignments returns, no seat is occupied by a
\* participant whose response is flagged absent, whether by the response's
\* id or by a manual seat for the response's email.
C18_AbsentNeverSeated ==
  pc = "assigned" =>
    \A k \in 1..Len(responses) :
      IsAbsent(responses[k]) =>
        \A t \in 1..Len(tables) : \A s \in OccupiedAt(t) :
          /\ tables[t].seats[s].id # responses[k].id
          /\ tables[t].seats[s].id # ManualId(responses[k].email)

\* C20: POST /api/responses never inserts or updates a response while the
\* stored published flag is true.
C20_NoWriteWhilePublished ==
  [][ (post.pc = "upsert" /\ post'.pc = "idle") => ~published ]_vars

====
